---- MODULE Spec2Model ----
(***************************************************************************)
(* Model of the RS_Scopes instrument session of RS_Scope.py: a             *)
(* single-threaded driver that issues SCPI commands through RsInstrument,  *)
(* polls for completion and writes CSV/screenshot files.                   *)
(*                                                                         *)
(* Every public method is one action.  The body of a method is an operator *)
(* that threads a call state                                               *)
(*   [log, calls, clock, files, fname, written, exc]                       *)
(* through the statements of the method, in source order.  A raised        *)
(* exception is the field exc: every statement is the identity on a state  *)
(* whose exc is set, and a try/except block clears it.  The instrument and *)
(* the RsInstrument library are the environment: which driver calls raise, *)
(* what the instrument answers and how long a round trip takes are inputs  *)
(* of the call (the record e).                                             *)
(*                                                                         *)
(* Time is counted in ticks of 0.1 s, the shortest sleep of the source.    *)
(***************************************************************************)
EXTENDS Integers, Sequences, FiniteSets, TLC

VARIABLES
    channels,   \* self.channels: the configured channels, in order
    fname,      \* self.fname
    save,       \* self.save: the deferred-save flag
    files,      \* the host directory: the set of existing file paths
    saves,      \* every file write since construction, in order
    op,         \* the method called last
    inp,        \* its arguments and the session fields it started from
    log,        \* the driver calls it made, in order, with their answers
    written,    \* the files it wrote, in order
    ret,        \* its return value, as Python prints it
    raised      \* the exception that left it ("none": it returned)

vars == <<channels, fname, save, files, saves, op, inp, log, written, ret, raised>>

----------------------------------------------------------------------------
(* Bounds of the model *)

MaxSaves == 3       \* file writes explored since construction
MaxCalls == 24      \* driver calls of one method that may be made to raise
MaxOpcBusy == 1     \* "not complete" answers to one operation-complete wait
MaxStatBusy == 1    \* "not complete" answers of ACQ:STAT? in one acquisition
MaxSegments == 2    \* segments the instrument reports (ACQ:COUN?, ACQ:AVA?)
MaxN == 3           \* requested count N
MaxLatency == 1     \* ticks one driver round trip may take
NSamples == 2       \* samples of one trace
MaxNameLen == 6     \* length of self.fname from which no history save is explored

(* Program constants *)

TicksPerSecond == 10        \* sleep(0.1) is one tick
opc_timeout == 15           \* seconds
acquisition_timeout == 10   \* seconds
MaxLength == 40000000       \* 40E6
MinLength == 5000           \* 5E3

path == "data/"             \* dir.dropbox
folder == ""                \* self.folder = None (falsy)
file_format == "csv"
screenshot_format == "png"  \* one of the two formats screenshot accepts
instr_path == "/INT/SCREEN/"

----------------------------------------------------------------------------
(* Python helpers *)

\* sub in str
Contains(str, sub) ==
    \E i \in 1..(Len(str) - Len(sub) + 1) : SubSeq(str, i, i + Len(sub) - 1) = sub

\* int(str) of an instrument answer
IntOf(str) == CHOOSE n \in 0..(MaxSegments + MaxN + 1) : ToString(n) = str

Min(a, b) == IF a < b THEN a ELSE b

----------------------------------------------------------------------------
(* The call state and the driver *)

NewCall == [log |-> <<>>, calls |-> 0, clock |-> 0, files |-> files,
            fname |-> fname, written |-> <<>>, exc |-> "none"]

\* One RsInstrument call (write_str, query, query_opc, file transfer): it takes
\* e.lat ticks, and it raises when the environment makes this call fail (e.fails,
\* by the call's number) or the instrument rejects the command (e.off, by the
\* command: a channel that is off or unavailable); otherwise it answers res.
Drv(s, e, cmd, arg, res) ==
    IF s.exc # "none" THEN s
    ELSE LET n == s.calls + 1
             t == s.clock + e.lat
             bad == n \in e.fails \/ cmd \in e.off
         IN [s EXCEPT !.calls = n,
                      !.clock = t,
                      !.log = Append(@, [cmd |-> cmd, arg |-> arg, t |-> t,
                                         res |-> IF bad THEN "raise" ELSE res]),
                      !.exc = IF bad THEN "RsInstrException" ELSE "none"]

\* sleep(d)
Sleep(s, d) == IF s.exc # "none" THEN s ELSE [s EXCEPT !.clock = @ + d]

\* The answer of the last driver call
LastRes(s) == s.log[Len(s.log)].res

ChanCmd(channel, tail) == "CHAN" \o ToString(channel) \o tail

----------------------------------------------------------------------------
(* opc_check and the unbounded operation-complete waits *)

OpcTimedOut(elapsed) == elapsed > opc_timeout * TicksPerSecond

RECURSIVE opc_poll(_, _, _, _)
opc_poll(s, e, start_time, j) ==
    IF s.exc # "none" THEN s
    ELSE LET s1 == Drv(s, e, "*OPC?", 0, IF j < e.opc THEN "False" ELSE "True")
         IN IF s1.exc # "none" \/ LastRes(s1) = "True" THEN s1
            ELSE IF OpcTimedOut(s1.clock - start_time) THEN s1
            ELSE opc_poll(Sleep(s1, 1), e, start_time, j + 1)

opc_check(s, e) == opc_poll(s, e, s.clock, 0)

\* while not self.query_opc(): sleep(0.1)
RECURSIVE wait_opc(_, _, _)
wait_opc(s, e, j) ==
    IF s.exc # "none" THEN s
    ELSE LET s1 == Drv(s, e, "*OPC?", 0, IF j < e.opc THEN "False" ELSE "True")
         IN IF s1.exc # "none" \/ LastRes(s1) = "True" THEN s1
            ELSE wait_opc(Sleep(s1, 1), e, j + 1)

----------------------------------------------------------------------------
(* channel_select *)

RECURSIVE channel_on(_, _, _, _)
channel_on(s, e, chans, i) ==
    IF i > Len(chans) \/ s.exc # "none" THEN s
    ELSE channel_on(opc_check(Drv(s, e, ChanCmd(chans[i], ":STAT ON"), 0, "ok"), e),
                    e, chans, i + 1)

channel_select(s, e, chans) == channel_on(Drv(s, e, "CHAN:AOFF", 0, "ok"), e, chans, 1)

----------------------------------------------------------------------------
(* check_file_exists and write_file *)

\* A check that renames once and does not look again
CheckOnce(save_file, format, existing) ==
    IF (save_file \o "." \o format) \in existing
    THEN save_file \o "-(copy)" \o "." \o format
    ELSE save_file \o "." \o format

\* The while loop of check_file_exists
RECURSIVE check_loop(_, _, _)
check_loop(save_file, format, existing) ==
    IF (save_file \o "." \o format) \in existing
    THEN check_loop(save_file \o "-(copy)", format, existing)
    ELSE save_file \o "." \o format

check_file_exists(s, format) ==
    LET save_file == IF folder # "" THEN path \o folder \o s.fname
                                    ELSE path \o s.fname
    IN check_loop(save_file, format, s.files)

\* open(save_file, 'w') and the rows written: the file exists afterwards
PutFile(s, save_file, format, headers, rows) ==
    [s EXCEPT !.files = @ \cup {save_file},
              !.written = Append(@, [path |-> save_file, fname |-> s.fname,
                                     ext |-> format, headers |-> headers,
                                     rows |-> rows, at |-> Len(s.log),
                                     existed |-> save_file \in s.files])]

write_file(s, channel_data, field_headers) ==
    IF s.exc # "none" THEN s
    ELSE PutFile(s, check_file_exists(s, file_format), file_format,
                 field_headers, channel_data)

----------------------------------------------------------------------------
(* query_data, query_time *)

\* Symbolic samples: <<c, k>> is sample k of channel c, <<0, k>> is instant k
\* of the time axis (linspace over the header's start, stop and count).
Trace(channel) == [k \in 1..NSamples |-> <<channel, k>>]
TimeAxis == [k \in 1..NSamples |-> <<0, k>>]

\* An except block that prints 'Exception raised: ' + ex, as query_time's does
QueryDataReraises(exc) == "TypeError"

\* The exception that leaves query_data's except block: it prints
\* 'Exception raised: ' + ex.args[0], a str + str, and goes on.
query_data_except(exc) == "none"

\* The exception that leaves query_time's except block: it prints
\* 'Exception raised: ' + ex, a str + Exception, which raises TypeError.
query_time_except(exc) == "TypeError"

query_data(s, e, channel) ==
    LET s1 == opc_check(Drv(s, e, ChanCmd(channel, ":DATA?"), 0, "list"), e)
    IN IF s.exc # "none" THEN [s |-> s, ok |-> FALSE, data |-> <<>>]
       ELSE IF s1.exc # "none"
            THEN [s |-> [s1 EXCEPT !.exc = query_data_except(@)],
                  ok |-> FALSE, data |-> <<>>]
            ELSE [s |-> s1, ok |-> TRUE, data |-> Trace(channel)]

query_time(s, e, channel) ==
    LET s1 == opc_check(Drv(s, e, ChanCmd(channel, ":DATA:HEAD?"), 0, "list"), e)
    IN IF s.exc # "none" THEN [s |-> s, ok |-> FALSE, data |-> <<>>]
       ELSE IF s1.exc # "none"
            THEN [s |-> [s1 EXCEPT !.exc = query_time_except(@)],
                  ok |-> FALSE, data |-> <<>>]
            ELSE [s |-> s1, ok |-> TRUE, data |-> TimeAxis]

----------------------------------------------------------------------------
(* save_channels *)

\* headers.append(f'C_{channel} (V)')
Header(channel) == "C_" \o ToString(channel) \o " (V)"

\* if data: cols.append(data)
AppendCol(cols, q) == IF q.ok /\ q.data # <<>> THEN Append(cols, q.data) ELSE cols

\* The for loop of save_channels from channel number i on
RECURSIVE collect(_, _, _, _, _, _)
collect(s, e, chans, i, headers, cols) ==
    IF i > Len(chans) \/ s.exc # "none"
    THEN [s |-> s, headers |-> headers, cols |-> cols]
    ELSE LET q == query_data(s, e, chans[i])
         IN collect(wait_opc(q.s, e, 0), e, chans, i + 1,
                    Append(headers, Header(chans[i])), AppendCol(cols, q))

RECURSIVE MinLen(_, _, _)
MinLen(cols, j, m) ==
    IF j > Len(cols) THEN m ELSE MinLen(cols, j + 1, Min(m, Len(cols[j])))

\* zip(time_data, *cols): rows as long as the shortest column
Zip(time_data, cols) ==
    [k \in 1..MinLen(cols, 1, Len(time_data)) |->
        <<time_data[k]>> \o [j \in 1..Len(cols) |-> cols[j][k]]]

save_channels(s, e, chans) ==
    IF s.exc # "none" THEN s
    ELSE LET qt == query_time(s, e, chans[1])
             c == collect(qt.s, e, chans, 1, <<"time (s)">>, <<>>)
         IN write_file(c.s, Zip(qt.data, c.cols), c.headers)

----------------------------------------------------------------------------
(* save_history *)

\* self.fname = f'{self.fname}{i+1}'
SegmentName(current, i) == current \o ToString(i + 1)

\* The for loop of save_history from i on, over range(n)
RECURSIVE segment_loop(_, _, _, _, _)
segment_loop(s, e, chans, i, n) ==
    IF i >= n \/ s.exc # "none" THEN s
    ELSE LET s1 == opc_check(Drv(s, e, ChanCmd(chans[1], ":HIST:CURR"), i + 1, "ok"), e)
             s2 == IF s1.exc # "none" THEN s1
                   ELSE [s1 EXCEPT !.fname = SegmentName(@, i)]
         IN segment_loop(save_channels(s2, e, chans), e, chans, i + 1, n)

\* except Exception as ex: print('An error occured!' + ex.args[0])
save_history(s, e, chans) ==
    IF s.exc # "none" THEN s
    ELSE LET s1 == Drv(s, e, "ACQ:AVA?", 0, ToString(e.K))
             s2 == IF s1.exc # "none" THEN s1
                   ELSE segment_loop(s1, e, chans, 0, IntOf(LastRes(s1)))
         IN [s2 EXCEPT !.exc = "none"]

----------------------------------------------------------------------------
(* average *)

\* A test that gives up as soon as the timeout is reached
AverageTimedOutAtLimit(elapsed) == elapsed >= acquisition_timeout * TicksPerSecond

\* time() - start_time > self.acquisition_timeout
AverageTimedOut(elapsed) == elapsed > acquisition_timeout * TicksPerSecond

\* The while loop of average, after j answers other than '1'
RECURSIVE average_poll(_, _, _, _)
average_poll(s, e, start_time, j) ==
    IF s.exc # "none" THEN s
    ELSE LET s1 == Drv(s, e, "ACQ:AVER:COMP?", 0,
                       IF e.never \/ j < e.comp THEN "0" ELSE "1")
         IN IF s1.exc # "none" \/ LastRes(s1) = "1" THEN s1
            ELSE IF AverageTimedOut(s1.clock - start_time) THEN s1
            ELSE average_poll(Sleep(s1, TicksPerSecond), e, start_time, j + 1)

average(s, e, N) ==
    LET start_time == s.clock
        s1 == Drv(s, e, "ACQ:TYPE AVER", 0, "ok")
        s2 == Drv(s1, e, "ACQ:AVER:RES", 0, "ok")
        s3 == Drv(s2, e, "ACQ:NSIN:COUN", 1, "ok")
        s4 == Drv(s3, e, "ACQ:AVER:COUN", N, "ok")
        s5 == Drv(s4, e, "RUN", 0, "ok")
        s6 == average_poll(s5, e, start_time, 0)
        s7 == Drv(s6, e, "STOP", 0, "ok")
    IN IF s.exc # "none" THEN [s |-> s, ret |-> "None"]
       ELSE IF s7.exc # "none"
            THEN [s |-> [s7 EXCEPT !.exc = "none"], ret |-> "False"]
            ELSE [s |-> s7, ret |-> "True"]

----------------------------------------------------------------------------
(* acquire *)

\* A record length checked against the maximum only
RecordLengthNoMinimum(length) == IF length > MaxLength THEN MaxLength ELSE length

\* The manual record length sent with ACQ:POIN
RecordLength(length) ==
    IF length > MaxLength THEN MaxLength
    ELSE IF length < MinLength THEN MinLength
    ELSE length

\* A count armed as requested
SegmentCountUnclamped(N, max_segments) == N

\* if N > int(max_segments): N = int(max_segments)
SegmentCount(N, max_segments) == IF N > IntOf(max_segments) THEN IntOf(max_segments) ELSE N

\* check_hist_values: its second answer is the last of the log
check_hist_values(s, e) ==
    Drv(Drv(s, e, "ACQ:POIN?", 0, "5000"), e, "ACQ:COUN?", 0, ToString(e.M))

\* while self.query(f"ACQ:STAT?") != 'COMP': sleep(1)
RECURSIVE stat_poll(_, _, _)
stat_poll(s, e, j) ==
    IF s.exc # "none" THEN s
    ELSE LET s1 == Drv(s, e, "ACQ:STAT?", 0, IF j < e.stat THEN "RUN" ELSE "COMP")
         IN IF s1.exc # "none" \/ LastRes(s1) = "COMP" THEN s1
            ELSE stat_poll(Sleep(s1, TicksPerSecond), e, j + 1)

\* The record length commands
set_length(s, e, auto, length) ==
    IF auto THEN Drv(s, e, "ACQ:POIN:AUT ON", 0, "ok")
    ELSE Drv(Drv(Drv(s, e, "ACQ:POIN:AUT OFF", 0, "ok"),
                 e, "ACQ:MEM DMEM", 0, "ok"),
             e, "ACQ:POIN", RecordLength(length), "ok")

\* The else branch of "AVER" in mode, up to the end of the completion loop
single_shots(s, e, mode, N) ==
    LET s1 == check_hist_values(s, e)
        n == IF s1.exc # "none" THEN N ELSE SegmentCount(N, LastRes(s1))
        s2 == Drv(s1, e, "ACQ:TYPE REFR", 0, "ok")
        s3 == IF Contains(mode, "NSING")
              THEN Drv(s2, e, "ACQ:NSIN:COUN", n, "ok")
              ELSE Drv(s2, e, "ACQ:NSIN:COUN", 1, "ok")
    IN stat_poll(Drv(s3, e, "RUNS", 0, "ok"), e, 0)

acquire(s, e, chans, deferred, mode, N, auto, length) ==
    LET s1 == channel_select(s, e, chans)
        s2 == Drv(s1, e, "ACQ:SEGM:STAT ON", 0, "ok")
        s3 == set_length(s2, e, auto, length)
        averaged == Contains(mode, "AVER")
        hist == ~averaged /\ Contains(mode, "NSING")
        s4 == IF averaged THEN average(s3, e, N).s ELSE single_shots(s3, e, mode, N)
        s5 == IF deferred
              THEN IF hist THEN save_history(s4, e, chans) ELSE save_channels(s4, e, chans)
              ELSE s4
    IN IF s5.exc # "none"
       THEN [s |-> [s5 EXCEPT !.exc = "none"], ret |-> "False"]
       ELSE [s |-> s5, ret |-> "True"]

----------------------------------------------------------------------------
(* screenshot *)

\* read_file_from_instrument_to_pc: the host file exists when it returns
transfer(s, e, source, target) ==
    LET s1 == Drv(s, e, "READ " \o source, 0, "ok")
    IN IF s.exc # "none" \/ s1.exc # "none" THEN s1
       ELSE PutFile(s1, target, screenshot_format, <<>>, <<>>)

\* The two statements in the other order: delete, then transfer
DeleteThenTransfer(s, e) ==
    LET save_file == check_file_exists(s, screenshot_format)
        s1 == Drv(s, e, "MMEM:DEL " \o s.fname \o "." \o screenshot_format, 0, "ok")
    IN transfer(s1, e, instr_path \o s.fname \o "." \o screenshot_format, save_file)

\* The statements after the completion wait: transfer, then delete
transfer_then_delete(s, e) ==
    LET save_file == check_file_exists(s, screenshot_format)
        s1 == transfer(s, e, instr_path \o s.fname \o "." \o screenshot_format, save_file)
    IN Drv(s1, e, "MMEM:DEL " \o s.fname \o "." \o screenshot_format, 0, "ok")

screenshot(s, e) ==
    LET s1 == Drv(s, e, "MMEM:CDIR " \o instr_path, 0, "ok")
        s2 == Drv(s1, e, "HCOP:FORM " \o screenshot_format, 0, "ok")
        s3 == Drv(s2, e, "MMEM:NAME " \o s.fname, 0, "ok")
        s4 == Drv(s3, e, "HCOP:IMM", 0, "ok")
        s5 == wait_opc(s4, e, 0)
        s6 == IF s5.exc # "none" THEN s5 ELSE transfer_then_delete(s5, e)
    IN IF s6.exc # "none"
       THEN [s |-> [s6 EXCEPT !.exc = "none"], ret |-> "False"]
       ELSE [s |-> s6, ret |-> "True"]

----------------------------------------------------------------------------
(* Inputs: the caller's arguments and the environment of one call *)

Modes == {"SINGle", "NSINGle", "AVERage"}
Counts == 1..MaxN
Lengths == {MinLength - 1, MinLength, 1000000, MaxLength, MaxLength + 1}
ChannelSets == {<<1>>, <<1, 2>>, <<2, 1>>}
FNames == {"file", "run"}

\* At most one driver call fails by its number
Fails == {{}} \cup {{n} : n \in 1..MaxCalls}

\* Channels whose data query the instrument rejects
Offs(chans) == SUBSET {ChanCmd(chans[i], ":DATA?") : i \in 1..Len(chans)}

\* ACQ:AVER:COMP? answers '1' at once, after one '0', or never
Completions == {<<0, FALSE>>, <<1, FALSE>>, <<0, TRUE>>}

\* An instrument that answers at once, completes at once and never fails
Quiet == [fails |-> {}, off |-> {}, opc |-> 0, lat |-> 0, M |-> 1, K |-> 0,
          stat |-> 0, comp |-> 0, never |-> FALSE]

\* What a call may meet: any arguments and any instrument within the bounds
Rich == [fails |-> Fails, offs |-> TRUE, opc |-> 0..MaxOpcBusy,
         lat |-> 0..MaxLatency, M |-> 1..MaxSegments, K |-> 0..MaxSegments,
         stat |-> 0..MaxStatBusy, done |-> Completions,
         counts |-> Counts, autos |-> BOOLEAN]
\* acquire's default N and record length, and an instrument that never fails
\* and is never busy
Calm == [fails |-> {{}}, offs |-> FALSE, opc |-> {0},
         lat |-> {0}, M |-> {MaxSegments}, K |-> 0..MaxSegments,
         stat |-> {0}, done |-> {<<0, FALSE>>},
         counts |-> {1}, autos |-> {TRUE}]

OffsIn(E, chans) == IF E.offs THEN Offs(chans) ELSE {{}}

NoArgs == [mode |-> "", N |-> 0, auto |-> TRUE, length |-> 0, channel |-> 0]

\* The arguments of a call with the session fields it starts from
Started(args) == [mode |-> args.mode, N |-> args.N, auto |-> args.auto,
                  length |-> args.length, channel |-> args.channel,
                  fname |-> fname, files |-> files, channels |-> channels,
                  save |-> save]

\* A method returns (or raises): its record is kept and the session fields and
\* the host directory are those it leaves
Returned(name, args, s, r) ==
    /\ op' = name
    /\ inp' = Started(args)
    /\ log' = s.log
    /\ written' = s.written
    /\ ret' = r
    /\ raised' = s.exc
    /\ files' = s.files
    /\ fname' = s.fname
    /\ saves' = saves \o [i \in 1..Len(s.written) |->
                            [fname |-> s.written[i].fname, ext |-> s.written[i].ext,
                             path |-> s.written[i].path]]
    /\ UNCHANGED <<channels, save>>

\* A caller's assignment to a session field: no method has run since
Assigned ==
    /\ op' = "assign"
    /\ inp' = Started(NoArgs)'
    /\ log' = <<>>
    /\ written' = <<>>
    /\ ret' = "None"
    /\ raised' = "none"

\* The model stops exploring a session that has written MaxSaves files or whose
\* file name has grown to MaxNameLen characters
MaySave == Len(saves) < MaxSaves /\ Len(fname) < MaxNameLen

----------------------------------------------------------------------------
(* State after construction: fname 'file', save False; the caller has set the *)
(* channels it uses; the output directory is empty.                          *)

Init ==
    /\ channels \in ChannelSets
    /\ fname = "file"
    /\ save = FALSE
    /\ files = {}
    /\ saves = <<>>
    /\ op = "init"
    /\ inp = [mode |-> "", N |-> 0, auto |-> TRUE, length |-> 0, channel |-> 0,
              fname |-> "file", files |-> {}, channels |-> channels, save |-> FALSE]
    /\ log = <<>>
    /\ written = <<>>
    /\ ret = "None"
    /\ raised = "none"

----------------------------------------------------------------------------
(* The caller's operations, in the environments E *)

\* instr.fname = f
SetFname ==
    \E f \in FNames :
        /\ fname # f
        /\ fname' = f
        /\ UNCHANGED <<channels, save, files, saves>>
        /\ Assigned

\* instr.save = b
SetSave ==
    /\ save' = ~save
    /\ UNCHANGED <<channels, fname, files, saves>>
    /\ Assigned

QueryData(E) ==
    \E c \in 1..Len(channels), f \in E.fails, o \in E.opc, off \in OffsIn(E, channels) :
        LET e == [Quiet EXCEPT !.fails = f, !.opc = o, !.off = off]
            q == query_data(NewCall, e, channels[c])
        IN Returned("query_data", [NoArgs EXCEPT !.channel = channels[c]], q.s,
                    IF q.s.exc # "none" THEN "raised"
                    ELSE IF q.ok THEN "list" ELSE "False")

QueryTime(E) ==
    \E c \in 1..Len(channels), f \in E.fails, o \in E.opc :
        LET e == [Quiet EXCEPT !.fails = f, !.opc = o]
            q == query_time(NewCall, e, channels[c])
        IN Returned("query_time", [NoArgs EXCEPT !.channel = channels[c]], q.s,
                    IF q.s.exc # "none" THEN "raised"
                    ELSE IF q.ok THEN "list" ELSE "False")

SaveChannels(E) ==
    /\ MaySave
    /\ \E f \in E.fails, o \in E.opc, off \in OffsIn(E, channels) :
        LET e == [Quiet EXCEPT !.fails = f, !.opc = o, !.off = off]
            s == save_channels(NewCall, e, channels)
        IN Returned("save_channels", NoArgs, s,
                    IF s.exc # "none" THEN "raised" ELSE "None")

SaveHistory(E) ==
    /\ MaySave
    /\ \E f \in E.fails, o \in E.opc, off \in OffsIn(E, channels), k \in E.K :
        LET e == [Quiet EXCEPT !.fails = f, !.opc = o, !.off = off, !.K = k]
            s == save_history(NewCall, e, channels)
        IN Returned("save_history", NoArgs, s, "None")

Average(E) ==
    \E n \in E.counts, f \in E.fails, l \in E.lat, d \in E.done :
        LET e == [Quiet EXCEPT !.fails = f, !.lat = l, !.comp = d[1], !.never = d[2]]
            r == average(NewCall, e, n)
        IN Returned("average", [NoArgs EXCEPT !.N = n], r.s, r.ret)

Screenshot(E) ==
    /\ MaySave
    /\ \E f \in E.fails, o \in E.opc :
        LET e == [Quiet EXCEPT !.fails = f, !.opc = o]
            r == screenshot(NewCall, e)
        IN Returned("screenshot", NoArgs, r.s, r.ret)

\* acquire(mode, N, auto, length): the environment's answers that the mode and
\* the deferred save never ask for are left at their quiet values, and *OPC?
\* answers True at once
Acquire(E) ==
    /\ MaySave
    /\ \E mode \in Modes, n \in E.counts, auto \in E.autos, f \in E.fails :
       \E length \in IF auto THEN {5000000} ELSE Lengths,
          d \in IF Contains(mode, "AVER") THEN E.done ELSE {<<0, FALSE>>},
          m \in IF Contains(mode, "AVER") THEN {1} ELSE E.M,
          st \in IF Contains(mode, "AVER") THEN {0} ELSE E.stat,
          k \in IF save /\ mode = "NSINGle" THEN E.K ELSE {0},
          off \in IF save THEN OffsIn(E, channels) ELSE {{}} :
        LET e == [fails |-> f, off |-> off, opc |-> 0, lat |-> 0, M |-> m, K |-> k,
                  stat |-> st, comp |-> d[1], never |-> d[2]]
            r == acquire(NewCall, e, channels, save, mode, n, auto, length)
        IN Returned("acquire", [mode |-> mode, N |-> n, auto |-> auto,
                                length |-> length, channel |-> 0], r.s, r.ret)

\* One method call on a session the caller has configured
Configuring == op \in {"init", "assign"}

Next ==
    \/ Configuring /\ SetSave
    \/ Configuring /\ QueryData(Rich)
    \/ Configuring /\ QueryTime(Rich)
    \/ Configuring /\ SaveChannels(Rich)
    \/ Configuring /\ SaveHistory(Rich)
    \/ Configuring /\ Average(Rich)
    \/ Configuring /\ Screenshot(Rich)
    \/ Configuring /\ Acquire(Rich)

Spec == Init /\ [][Next]_vars

\* Any sequence of saving method calls and assignments, on a calm instrument
NextSession ==
    \/ SetFname
    \/ SetSave
    \/ SaveChannels(Calm)
    \/ SaveHistory(Calm)
    \/ Screenshot(Calm)
    \/ Acquire(Calm)

SpecSession == Init /\ [][NextSession]_vars

----------------------------------------------------------------------------
(* What the claims read off a call's record *)

\* The driver calls of the last method that raised
Raises == {i \in 1..Len(log) : log[i].res = "raise"}

\* The places of command c in the log
Issued(c) == {i \in 1..Len(log) : log[i].cmd = c}

IsDataQuery(entry) == \E c \in 1..4 : entry.cmd = ChanCmd(c, ":DATA?")

RECURSIVE Copies(_)
Copies(k) == IF k = 0 THEN "" ELSE "-(copy)" \o Copies(k - 1)

\* The earlier writes of the session under the name and extension of write i
Earlier(i) == {j \in 1..(i - 1) : saves[j].fname = saves[i].fname
                                  /\ saves[j].ext = saves[i].ext}

----------------------------------------------------------------------------
(* C1: file de-duplication over repeated saves *)

\* C1 as stated: from an empty directory, the first save of a name writes
\* <name>.<ext> and every later save of that name, the third included, writes
\* <name>-(copy).<ext>, so the third overwrites the second's file and a name
\* never has more than two files.
C1_ThirdSaveReusesCopy ==
    \A i \in 1..Len(saves) :
        /\ saves[i].path = path \o saves[i].fname
                           \o (IF Earlier(i) = {} THEN "" ELSE "-(copy)")
                           \o "." \o saves[i].ext
        /\ Cardinality({saves[j].path : j \in Earlier(i) \cup {i}}) <= 2

\* C1 amended: from an empty directory, the k-th save of a name writes the name
\* followed by k-1 "-(copy)" markers, so no save writes to a file that exists
\* and n saves leave n files.
C1_EachSaveAddsCopyMarker ==
    /\ \A i \in 1..Len(saves) :
        saves[i].path = path \o saves[i].fname \o Copies(Cardinality(Earlier(i)))
                        \o "." \o saves[i].ext
    /\ \A i \in 1..Len(written) : ~written[i].existed
    /\ Cardinality(files) = Len(saves)

\* A third save of the same name and extension has happened
C1_ThirdSaveDone ==
    \E i \in 1..Len(saves) :
        /\ Cardinality(Earlier(i)) = 2
        /\ saves[i].path = path \o saves[i].fname \o "-(copy)-(copy)." \o saves[i].ext
        /\ saves[i].path \in files

----------------------------------------------------------------------------
(* C2: acquire's result *)

\* C2 as stated: acquire never raises, returns False whenever a driver call of
\* any of its steps raised, and returns True only when none did.
C2_AcquireResultReflectsSuccess ==
    op = "acquire" =>
        /\ raised = "none"
        /\ ret = (IF Raises = {} THEN "True" ELSE "False")

----------------------------------------------------------------------------
(* C3: segmented history save *)

\* C3 as stated: with no driver error, save_history over K available segments
\* writes K files, brings segment i to the front right before the i-th file is
\* collected, and names the i-th file with the base name it started from
\* followed by i.
C3_SegmentFileNames ==
    (op = "save_history" /\ Raises = {} /\ Len(log) > 0) =>
        LET K == IntOf(log[1].res)
            curr == ChanCmd(inp.channels[1], ":HIST:CURR")
        IN /\ Len(written) = K
           /\ \A i \in 1..K :
                /\ written[i].fname = inp.fname \o ToString(i)
                /\ \E j \in Issued(curr) :
                     /\ log[j].arg = i
                     /\ j < written[i].at
                     /\ \A k \in Issued(curr) : k > j => k > written[i].at

----------------------------------------------------------------------------
(* C4: the averaging wait and its STOP *)

\* C4: when no driver call raises, average issues STOP exactly once, as its last
\* command, after every ACQ:AVER:COMP? poll; if no poll is answered '1' the
\* loop ends at the first poll at which more than acquisition_timeout has
\* elapsed since the start of average, and otherwise at the first '1'.  In
\* acquire's AVER mode STOP is likewise issued once, after every poll.
C4_AverageStopsOnce ==
    LET polls == Issued("ACQ:AVER:COMP?")
        stops == Issued("STOP")
        limit == acquisition_timeout * TicksPerSecond
    IN /\ (op = "average" /\ Raises = {}) =>
            /\ stops = {Len(log)}
            /\ polls # {}
            /\ \A i \in polls : i < Len(log)
            /\ \A i \in polls :
                 IF i = Len(log) - 1
                 THEN log[i].res = "1" \/ log[i].t > limit
                 ELSE log[i].res = "0" /\ log[i].t <= limit
       /\ (op = "acquire" /\ Raises = {} /\ inp.mode = "AVERage") =>
            /\ Cardinality(stops) = 1
            /\ polls # {}
            /\ \A i \in polls : \A j \in stops : i < j

\* average has timed out: no poll was answered '1', and STOP was issued
C4_TimedOutAndStopped ==
    /\ op = "average"
    /\ Raises = {}
    /\ \A i \in Issued("ACQ:AVER:COMP?") : log[i].res = "0"
    /\ Len(log) > 0
    /\ log[Len(log)].cmd = "STOP"
    /\ log[Len(log) - 1].t > acquisition_timeout * TicksPerSecond

----------------------------------------------------------------------------
(* C5: query_time on a driver error *)

\* C5 as stated: when the header query (or the completion check after it)
\* raises, query_time returns False and no exception leaves it.
C5_QueryTimeReturnsSentinel ==
    (op = "query_time" /\ Raises # {}) => (raised = "none" /\ ret = "False")

----------------------------------------------------------------------------
(* C6: an unavailable channel *)

\* C6: a driver error on a channel's data query makes query_data return False,
\* and a save_channels in which only data queries raise still queries every
\* configured channel in configured order, returns normally and writes its
\* file after the last query.
C6_UnavailableChannelSkipped ==
    /\ (op = "query_data" /\ Raises # {}) => (ret = "False" /\ raised = "none")
    /\ (op = "save_channels" /\ Raises # {} /\ \A i \in Raises : IsDataQuery(log[i])) =>
            /\ raised = "none"
            /\ LET asked == SelectSeq(log, IsDataQuery)
               IN asked = [k \in 1..Len(inp.channels) |->
                              [asked[k] EXCEPT !.cmd = ChanCmd(inp.channels[k], ":DATA?")]]
            /\ Len(written) = 1
            /\ written[1].at = Len(log)

\* save_channels on two channels has met an error on the first one's data query
\* and has written its file
C6_FirstChannelFailedFileWritten ==
    /\ op = "save_channels"
    /\ Len(inp.channels) = 2
    /\ \E i \in Raises : log[i].cmd = ChanCmd(inp.channels[1], ":DATA?")
    /\ \E i \in 1..Len(log) : log[i].cmd = ChanCmd(inp.channels[2], ":DATA?")
                               /\ log[i].res = "list"
    /\ Len(written) = 1

----------------------------------------------------------------------------
(* C7: the manual record length *)

\* C7: with auto = False the length sent with ACQ:POIN is the requested length
\* raised to 5000 when below it, lowered to 40000000 when above it and
\* unchanged in between, and it is sent once ACQ:MEM DMEM has gone through;
\* with auto = True no ACQ:POIN command is sent.
C7_RecordLengthClamped ==
    op = "acquire" =>
        LET sent == Issued("ACQ:POIN")
            L == inp.length
        IN IF inp.auto THEN sent = {}
           ELSE /\ \A i \in sent :
                    /\ L < MinLength => log[i].arg = MinLength
                    /\ L > MaxLength => log[i].arg = MaxLength
                    /\ (L >= MinLength /\ L <= MaxLength) => log[i].arg = L
                /\ Cardinality(sent) <= 1
                /\ \A j \in Issued("ACQ:MEM DMEM") : log[j].res = "ok" => sent = {j + 1}

\* acquire has been asked for a manual length below the minimum and has sent
\* the minimum
C7_ShortLengthRaised ==
    /\ op = "acquire"
    /\ ~inp.auto
    /\ inp.length < MinLength
    /\ \E i \in Issued("ACQ:POIN") : log[i].arg = MinLength /\ log[i].res = "ok"

----------------------------------------------------------------------------
(* C8: the armed segment count *)

\* C8: in multi-single mode the count sent with ACQ:NSIN:COUN is the smaller of
\* the requested N and the maximum the instrument answered to ACQ:COUN?; in
\* single mode it is 1; the command is sent once ACQ:TYPE REFR has gone through.
C8_SegmentCountIsMin ==
    (op = "acquire" /\ inp.mode # "AVERage") =>
        LET armed == Issued("ACQ:NSIN:COUN")
        IN /\ \A i \in armed :
                \E j \in Issued("ACQ:COUN?") :
                    /\ j < i
                    /\ log[j].res # "raise"
                    /\ LET M == IntOf(log[j].res)
                       IN log[i].arg = IF inp.mode = "NSINGle"
                                       THEN (IF inp.N < M THEN inp.N ELSE M)
                                       ELSE 1
           /\ \A j \in Issued("ACQ:TYPE REFR") : log[j].res = "ok" => armed = {j + 1}

\* acquire in multi-single mode has been asked for more segments than the
\* instrument holds and has armed the instrument's maximum
C8_CountLoweredToMaximum ==
    /\ op = "acquire"
    /\ inp.mode = "NSINGle"
    /\ \E i \in Issued("ACQ:NSIN:COUN"), j \in Issued("ACQ:COUN?") :
          /\ log[j].res # "raise"
          /\ inp.N > IntOf(log[j].res)
          /\ log[i].arg = IntOf(log[j].res)
          /\ log[i].res = "ok"

----------------------------------------------------------------------------
(* C9: the order of a screenshot *)

ScreenshotFile == instr_path \o inp.fname \o "." \o screenshot_format
DeleteCmd == "MMEM:DEL " \o inp.fname \o "." \o screenshot_format

\* The delete is issued only after the capture, a completion answer of True and
\* a transfer that succeeded, in this order
DeleteOnlyAfterTransfer ==
    \A d \in Issued(DeleteCmd) :
        \E c \in Issued("HCOP:IMM"), o \in Issued("*OPC?"), r \in Issued("READ " \o ScreenshotFile) :
            /\ c < o /\ o < r /\ r < d
            /\ log[c].res = "ok" /\ log[o].res = "True" /\ log[r].res = "ok"
            /\ Len(written) = 1 /\ written[1].at = r

\* C9 as stated: the delete comes only after capture, completion and a
\* successful transfer; when a step up to and including the transfer raises,
\* no delete is issued and screenshot returns False; otherwise it returns True.
C9_TrueUnlessCaptureOrTransferFails ==
    op = "screenshot" =>
        /\ DeleteOnlyAfterTransfer
        /\ IF \E i \in Raises : log[i].cmd # DeleteCmd
           THEN Issued(DeleteCmd) = {} /\ ret = "False"
           ELSE ret = "True"

\* C9 amended: the delete comes only after capture, completion and a successful
\* transfer; when a step up to and including the transfer raises, no delete is
\* issued; screenshot returns True exactly when no step raised, the delete
\* included, and False otherwise; no exception leaves it.
C9_DeleteAfterTransfer ==
    op = "screenshot" =>
        /\ DeleteOnlyAfterTransfer
        /\ (\E i \in Raises : log[i].cmd # DeleteCmd) => Issued(DeleteCmd) = {}
        /\ ret = (IF Raises = {} THEN "True" ELSE "False")
        /\ Raises = {} => Issued(DeleteCmd) # {}
        /\ raised = "none"

\* screenshot has transferred the file, the delete has raised, and it has
\* returned False
C9_DeleteFailed ==
    /\ op = "screenshot"
    /\ \E d \in Issued(DeleteCmd) : log[d].res = "raise"
    /\ Len(written) = 1
    /\ ret = "False"

----------------------------------------------------------------------------
(* C10: the columns of a saved CSV file *)

\* C10 as stated: every file save_channels writes has the header 'time (s)',
\* 'C_<n> (V)' for each configured channel, and each of its rows holds one
\* value per header column, the value under the k-th channel's header a sample
\* of that channel.
C10_ColumnsAligned ==
    op = "save_channels" =>
        \A w \in 1..Len(written) :
            /\ written[w].headers = <<"time (s)">> \o
                    [k \in 1..Len(inp.channels) |-> Header(inp.channels[k])]
            /\ \A r \in 1..Len(written[w].rows) :
                LET row == written[w].rows[r]
                IN /\ Len(row) = Len(written[w].headers)
                   /\ row[1] = <<0, r>>
                   /\ \A k \in 1..Len(inp.channels) :
                        k + 1 <= Len(row) => row[k + 1] = <<inp.channels[k], r>>

====
